---- MODULE Spec2Model ----
(***************************************************************************)
(* The bounded-concurrency pipeline of moveobject: a producer reading the  *)
(* object listing, a pool of workers running the per-object strategy       *)
(* (migrate / move / copy / delete), two outcome channels and the router   *)
(* goroutine that drains them into the fail / success log files.           *)
(***************************************************************************)
EXTENDS Integers, Sequences, FiniteSets, TLC

\* ---------------------------------------------------------------- bounds
MaxLines == 2
MaxSkip == 1
\* largest value of deleteConcurrent / migrationConcurrent / moveConcurrent /
\* copyConcurrent (max(100, GOMAXPROCS) in the program), scaled down
MaxConcurrent == 2

LineIds == 1..MaxLines

\* The variants of the pipeline present in the source.  "migrate" is the
\* first migrateState (single destination bucket), "migrateRoute" the second
\* one (pattern filter inside the strategy, four destination buckets).
Variants == {"migrate", "migrateRoute", "move", "copy", "delete"}

\* a delete whose worker only counts a success
HasSuccessChNotDelete(v) == v \notin {"copy", "delete"}

\* variants whose state has a successCh that the worker sends to
HasSuccessCh(v) == v # "copy"

\* variants whose finish() closes successCh
ClosesSuccessCh(v) == v \in {"migrateRoute", "move", "delete"}

\* What an input line looks like to the code that handles it:
\*   "ok"       a key that passes patternMatch (with a versionID, prefix where needed)
\*   "nomatch"  a key that fails patternMatch
\*   "nocomma"  a line without the ',' separator (matters to the move worker)
\*   "noroute"  a matching key whose leading segment selects no destination bucket
LineKinds(v) ==
    {"ok", "nomatch"} \cup (IF v = "move" THEN {"nocomma"} ELSE {})
                      \cup (IF v = "migrateRoute" THEN {"noroute"} ELSE {})

VARIABLES
    variant,        \* which command runs
    concurrent,     \* number of workers and capacity of each channel
    fake,           \* the --fake flag
    skipArg,        \* the --skip flag
    lines,          \* the input file: lines[i] is the kind of line i; line i carries key i
    mainpc,         \* position of the action (producer / finish)
    skip,           \* the local skip counter of the action
    nextLine,       \* index of the next line the scanner returns
    dryRun,         \* the global dryRun
    objectCh, objectClosed,
    failedCh, failedClosed,
    successCh, successClosed,
    wpc,            \* position of each worker goroutine
    wtask,          \* the line a worker holds until it has sent its outcome (0: none)
    count, failCnt, \* the two atomic counters
    routerpc,       \* position of the router goroutine
    failFile, successFile,  \* "absent" or "created" (O_CREATE|O_TRUNC done)
    failLog, successLog,    \* lines written to the two files
    wrun,           \* wrun[w]: remote calls the strategy issued for the task w holds, in order
    issued,         \* the remote operations issued so far in the run
    invoked,        \* invoked[i]: number of times the strategy ran for line i
    dequeued,       \* dequeued[i]: number of times a worker received line i
    enqueued,       \* the lines handed to queueUploadTask, in order
    summary,        \* the summary finish() printed: <<>> or <<count, failCnt>>
    halted,         \* the process is gone: a goroutine panicked or called os.Exit(1)
    \* the remote bucket, for the specification of repeated runs (SpecStore)
    store,          \* store[k]: the stored versions of key k, oldest first
    store0, store1, \* the bucket before the first run and after it
    nextVer,        \* the version id the bucket gives to the next object written
    listing,        \* the tasks of the listing file: (versionID, key) pairs
    runNo,          \* 0: no store run; 1, 2: the run in progress; 3: both runs done
    tcalls,         \* tcalls[t]: the remote calls issued for task t in this run
    tres,           \* tres[t]: "run", or what the strategy returned: "ok" / "fail"
    tstat,          \* tstat[t]: the VersionID StatObject returned for task t
    res1,           \* res1[t]: what the strategy returned for task t in the first run
    \* one migrate task with its key spelled out (SpecRoute)
    rkey,           \* the object key, a sequence of characters
    rcalls,         \* the remote calls migrateObject issued for it
    rbucket,        \* the bucket of its PutObject ("none": no PutObject)
    rres,           \* "todo", or what migrateObject returned: "ok" / "fail"
    \* the consumers of a remote listing (SpecList)
    lmode,          \* "move": listing-driven moveAction, "list": listAction, "none"
    lstart, lend,   \* the --start and --end flags
    lpc,            \* "list", "done" (returned nil), "failed" (returned the listing error)
    lpre,           \* the numbered prefix being listed
    lpos,           \* entries received from the listing of this prefix
    lentry,         \* the entry received last
    lout,           \* the lines written to version_listing.txt
    cancelled,      \* ctx.Done() is closed: the context given to init() was cancelled
    procs,          \* runtime.GOMAXPROCS(0)
    started,        \* workers started so far by the loop of init()
    busy,           \* workers that hold a task (between the receive and the send)
    tversion, tkey, \* the VersionID and the Key of a listing entry, as characters
    tpc,            \* where the task made of them is: "listed", "queued", "sent", "panic"
    tversionID, tobj    \* the worker's versionID (result[0]) and obj (result[1])

chans == <<objectCh, objectClosed, failedCh, failedClosed, successCh, successClosed>>
inputs == <<variant, concurrent, fake, skipArg, lines>>
mainv == <<mainpc, skip, nextLine, dryRun, enqueued, summary>>
workerv == <<wpc, wtask, wrun, count, failCnt, issued, invoked, dequeued, halted>>
routerv == <<routerpc, failFile, successFile, failLog, successLog>>
storev == <<store, store0, store1, nextVer, listing, runNo, tcalls, tres, tstat, res1>>
routev == <<rkey, rcalls, rbucket, rres>>
listv == <<lmode, lstart, lend, lpc, lpre, lpos, lentry, lout>>
poolv == <<procs, started, busy>>
encv == <<tversion, tkey, tpc, tversionID, tobj>>
vars == <<inputs, mainv, chans, workerv, routerv, storev, routev, listv, cancelled, poolv, encv>>

K == Len(lines)
Workers == 1..concurrent

Range(q) == {q[n] : n \in 1..Len(q)}
Max(a, b) == IF a >= b THEN a ELSE b
Min(a, b) == IF a <= b THEN a ELSE b
\* q without its last element
Front(q) == SubSeq(q, 1, Len(q) - 1)

\* the pipeline specification leaves the bucket out: remote results are the
\* environment's choice there
NoStore ==
    /\ store = <<>> /\ store0 = <<>> /\ store1 = <<>>
    /\ nextVer = 0 /\ listing = {} /\ runNo = 0
    /\ tcalls = <<>> /\ tres = <<>> /\ tstat = <<>> /\ res1 = <<>>

\* ... and reads its tasks from the listing file, not from the bucket
NoList ==
    /\ lmode = "none" /\ lstart = 0 /\ lend = 0 /\ lpc = "done"
    /\ lpre = 0 /\ lpos = 0 /\ lentry = <<>> /\ lout = <<>>

\* ... with its pool already started and its tasks not spelled out
NoPool == procs = 0 /\ started = 0 /\ busy = 0

NoEnc ==
    /\ tversion = <<>> /\ tkey = <<>> /\ tpc = "none"
    /\ tversionID = <<>> /\ tobj = <<>>

\* every action passes context.Background(), which is never cancelled
NotCancelled == cancelled = FALSE

\* ... and spells no key out
NoRoute == rkey = <<>> /\ rcalls = <<>> /\ rbucket = "none" /\ rres = "done"

\* ------------------------------------------------------------------ Init
\* newXState + init(): channels made, workers and router started, nothing
\* else has run yet.
Init ==
    /\ variant \in Variants
    /\ concurrent \in 1..MaxConcurrent
    /\ fake \in BOOLEAN
    /\ skipArg \in -1..MaxSkip
    /\ \E n \in 0..MaxLines : lines \in [1..n -> LineKinds(variant)]
    /\ mainpc = "flags"
    /\ skip = 0
    /\ nextLine = 1
    /\ dryRun = FALSE
    /\ objectCh = <<>> /\ objectClosed = FALSE
    /\ failedCh = <<>> /\ failedClosed = FALSE
    /\ successCh = <<>> /\ successClosed = FALSE
    /\ wpc = [w \in Workers |-> "recv"]
    /\ wtask = [w \in Workers |-> 0]
    /\ count = 0 /\ failCnt = 0
    /\ routerpc = "open"
    /\ failFile = "absent" /\ successFile = "absent"
    /\ failLog = <<>> /\ successLog = <<>>
    /\ wrun = [w \in Workers |-> <<>>]
    /\ issued = {}
    /\ invoked = [i \in LineIds |-> 0]
    /\ dequeued = [i \in LineIds |-> 0]
    /\ enqueued = <<>>
    /\ summary = <<>>
    /\ halted = FALSE
    /\ NoStore /\ NoRoute /\ NoList /\ NotCancelled /\ NoPool /\ NoEnc

\* ------------------------------------------------------------ strategies
\* Each strategy is the set of its possible runs for one task: the remote
\* calls it issues, in order, and whether it returns an error.  The remote
\* results are the environment's choice.
Run(c, e) == [calls |-> c, err |-> e]

patternMatch(kind) == kind # "nomatch"

migrateObject(dry, kind) ==
    { Run(<<"Get">>, TRUE),                 \* GetObject fails
      Run(<<"Get", "Stat">>, FALSE) }       \* r.Stat() fails: return nil
    \cup (IF dry THEN { Run(<<"Get", "Stat">>, FALSE) }
          ELSE { Run(<<"Get", "Stat", "Put">>, FALSE),
                 Run(<<"Get", "Stat", "Put">>, TRUE) })

migrateObjectRoute(dry, kind) ==
    IF ~patternMatch(kind) THEN { Run(<<>>, TRUE) }
    ELSE
    { Run(<<"Get">>, TRUE),
      Run(<<"Get", "Stat">>, TRUE) }        \* r.Stat() fails: return err
    \cup (IF dry THEN { Run(<<"Get", "Stat">>, FALSE) }
          ELSE IF kind = "noroute" THEN { Run(<<"Get", "Stat">>, TRUE) }
          ELSE { Run(<<"Get", "Stat", "Put">>, FALSE),
                 Run(<<"Get", "Stat", "Put">>, TRUE) })

\* a moveObject that leaves the source in place
moveObjectNoRemove(dry, kind) ==
    IF dry THEN { Run(<<>>, FALSE) }
    ELSE { Run(<<"Copy">>, TRUE), Run(<<"Copy">>, FALSE) }

moveObject(dry, kind) ==
    IF dry THEN { Run(<<>>, FALSE) }
    ELSE { Run(<<"Copy">>, TRUE),
           Run(<<"Copy", "Remove">>, TRUE),
           Run(<<"Copy", "Remove">>, FALSE) }

copyObject(dry, kind) ==
    IF dry THEN { Run(<<>>, FALSE) }
    ELSE { Run(<<"Copy">>, TRUE), Run(<<"Copy">>, FALSE) }

\* a deleteObject that removes the object without testing dryRun
deleteObjectNoDryRun(dry, kind) ==
    { Run(<<"Stat">>, TRUE),
      Run(<<"Stat", "Remove">>, TRUE),
      Run(<<"Stat", "Remove">>, FALSE) }

\* a deleteObject that removes without resolving the version first
deleteObjectNoStat(dry, kind) ==
    IF dry THEN { Run(<<>>, FALSE) }
    ELSE { Run(<<"Remove">>, TRUE), Run(<<"Remove">>, FALSE) }

\* a deleteObject that treats a failed StatObject as nothing to do
deleteObjectStatNil(dry, kind) ==
    { Run(<<"Stat">>, FALSE) }
    \cup (IF dry THEN { Run(<<"Stat">>, FALSE) }
          ELSE { Run(<<"Stat", "Remove">>, TRUE),
                 Run(<<"Stat", "Remove">>, FALSE) })

deleteObject(dry, kind) ==
    { Run(<<"Stat">>, TRUE) }
    \cup (IF dry THEN { Run(<<"Stat">>, FALSE) }
          ELSE { Run(<<"Stat", "Remove">>, TRUE),
                 Run(<<"Stat", "Remove">>, FALSE) })

Strategy(v, dry, kind) ==
    CASE v = "migrate" -> migrateObject(dry, kind)
      [] v = "migrateRoute" -> migrateObjectRoute(dry, kind)
      [] v = "move" -> moveObject(dry, kind)
      [] v = "copy" -> copyObject(dry, kind)
      [] v = "delete" -> deleteObject(dry, kind)

\* The remote calls take ctx: with ctx cancelled the first call a strategy
\* makes returns the context's error, and the strategy returns it (delete:
\* StatObject; move: CopyObject, none in a dry run).
StrategyCtx(v, dry, kind, done) ==
    IF done
      THEN { r \in Strategy(v, dry, kind) : Len(r.calls) <= 1 /\ (r.calls # <<>> => r.err) }
      ELSE Strategy(v, dry, kind)

\* a worker loop without the patternMatch test
WorkerFiltersNever(v) == FALSE

\* the worker's own patternMatch test before the strategy (move, copy, delete)
WorkerFilters(v) == v \in {"move", "copy", "delete"}


\* The process runs until the action returns (main returns with it, ending
\* every goroutine), a goroutine panics or the router calls os.Exit(1).
Running == ~halted /\ mainpc \notin {"done", "failed"}

\* ------------------------------------------------------------ the action
\* deleteAction / migrateAction / moveAction after init(): read the flags
\* (dryRun is written here, after the workers were started) and open the
\* input file.
\* an action that leaves the global dryRun as it was declared
DryRunUnwritten(f) == FALSE

\* dryRun = cliCtx.Bool("fake")
DryRunFlag(f) == f

ActionFlags ==
    /\ ~halted /\ mainpc = "flags"
    /\ skip' = skipArg
    /\ dryRun' = DryRunFlag(fake)
    /\ \E opened \in BOOLEAN : mainpc' = IF opened THEN "scan" ELSE "failed"
    /\ UNCHANGED <<inputs, nextLine, enqueued, summary, chans, workerv, routerv>>
    /\ UNCHANGED <<storev, routev, listv, cancelled, poolv, encv>>

\* m.objectCh <- obj
queueUploadTask(i) ==
    /\ ~objectClosed
    /\ Len(objectCh) < concurrent
    /\ objectCh' = Append(objectCh, i)
    /\ enqueued' = Append(enqueued, i)

\* a skip test that lets one line too many through to the queue
SkipLineOffByOne(s) == s > 1

\* if skip > 0
SkipLine(s) == s > 0

\* one turn of the scanner loop: skip the line or enqueue it
ActionScan ==
    /\ ~halted /\ mainpc = "scan" /\ nextLine <= K
    /\ IF SkipLine(skip)
         THEN /\ skip' = skip - 1
              /\ UNCHANGED <<objectCh, enqueued>>
         ELSE /\ queueUploadTask(nextLine)
              /\ UNCHANGED skip
    /\ nextLine' = nextLine + 1
    /\ UNCHANGED <<inputs, mainpc, dryRun, summary, objectClosed, failedCh, failedClosed,
                   successCh, successClosed, workerv, routerv>>
    /\ UNCHANGED <<storev, routev, listv, cancelled, poolv, encv>>

\* an action that closes the task channel before it returns the scanner error
ActionScanErrClose ==
    /\ ~halted /\ mainpc = "scan"
    /\ mainpc' = "failed"
    /\ objectClosed' = TRUE
    /\ UNCHANGED <<inputs, skip, nextLine, dryRun, enqueued, summary, objectCh, failedCh,
                   failedClosed, successCh, successClosed, workerv, routerv>>
    /\ UNCHANGED <<storev, routev, listv, cancelled, poolv, encv>>

\* scanner.Err() != nil: the action returns the error, finish() is not called
ActionScanErr ==
    /\ ~halted /\ mainpc = "scan"
    /\ mainpc' = "failed"
    /\ UNCHANGED <<inputs, skip, nextLine, dryRun, enqueued, summary, chans, workerv, routerv>>
    /\ UNCHANGED <<storev, routev, listv, cancelled, poolv, encv>>

\* end of input: finish() begins (its 100 ms sleep, where present, orders
\* nothing), close(m.objectCh)
FinishCloseObjectCh ==
    /\ ~halted /\ mainpc = "scan" /\ nextLine = K + 1
    /\ objectClosed' = TRUE
    /\ mainpc' = "wait"
    /\ UNCHANGED <<inputs, skip, nextLine, dryRun, enqueued, summary, objectCh,
                   failedCh, failedClosed, successCh, successClosed, workerv, routerv>>
    /\ UNCHANGED <<storev, routev, listv, cancelled, poolv, encv>>

\* a finish() that prints the summary in a dry run too
SummaryAlways == <<count, failCnt>>

\* the summary line of finish()
Summary == IF ~dryRun THEN <<count, failCnt>> ELSE <<>>

\* a finish() that does not wait for the workers
WorkersDoneNoWait == TRUE

\* a finish() that goes on as soon as one worker has returned
WorkersDoneOne == \E w \in Workers : wpc[w] = "exited"

\* m.wg.Wait() returns: every worker has run its deferred wg.Done()
WorkersDone == \A w \in Workers : wpc[w] = "exited"

\* m.wg.Wait() returns, close(m.failedCh); the variants that do not close
\* successCh print the summary and return here
FinishWait ==
    /\ ~halted /\ mainpc = "wait"
    /\ WorkersDone
    /\ failedClosed' = TRUE
    /\ IF ClosesSuccessCh(variant)
         THEN mainpc' = "closeSuccess" /\ UNCHANGED summary
         ELSE mainpc' = "done" /\ summary' = Summary
    /\ UNCHANGED <<inputs, skip, nextLine, dryRun, enqueued, objectCh, objectClosed,
                   failedCh, successCh, successClosed, workerv, routerv>>
    /\ UNCHANGED <<storev, routev, listv, cancelled, poolv, encv>>

\* close(m.successCh), the summary, return
FinishCloseSuccess ==
    /\ ~halted /\ mainpc = "closeSuccess"
    /\ successClosed' = TRUE
    /\ summary' = Summary
    /\ mainpc' = "done"
    /\ UNCHANGED <<inputs, skip, nextLine, dryRun, enqueued, objectCh, objectClosed,
                   failedCh, failedClosed, successCh, workerv, routerv>>
    /\ UNCHANGED <<storev, routev, listv, cancelled, poolv, encv>>

\* ------------------------------------------------------------ the worker
\* case obj, ok := <-m.objectCh with !ok: return, wg.Done()
WorkerExit(w) ==
    /\ Running /\ wpc[w] = "recv" /\ objectCh = <<>> /\ objectClosed
    /\ wpc' = [wpc EXCEPT ![w] = "exited"]
    /\ UNCHANGED <<inputs, mainv, chans, wtask, wrun, count, failCnt, issued, invoked,
                   dequeued, halted, routerv>>
    /\ UNCHANGED <<storev, routev, listv, cancelled, poolv, encv>>

\* a worker that returns on a strategy error instead of recording it
AfterStrategyReturnOnErr(v, err) ==
    IF err THEN "exited"
    ELSE IF HasSuccessCh(v) THEN "sendSuccess" ELSE "recv"

\* a worker that treats every return of the strategy as a success
AfterStrategyErrIgnored(v, err) ==
    IF HasSuccessCh(v) THEN "sendSuccess" ELSE "recv"

\* where the worker goes after the strategy returned
AfterStrategy(v, err) ==
    IF err THEN "sendFailed"
    ELSE IF HasSuccessCh(v) THEN "sendSuccess" ELSE "recv"

\* a move worker that takes a line without ',' as a key without version
SplitPanicsNever(v, kind) == FALSE

\* result := strings.SplitN(object, ",", 2); obj := result[1]: the index is
\* out of range when the line has no ','
SplitPanics(v, kind) == v = "move" /\ kind = "nocomma"

\* case obj, ok := <-m.objectCh with ok, and the body of the loop up to the
\* send: split (move), patternMatch, the strategy, incFailCount on error
\* (copy: incCount on success)
WorkerTask(w) ==
    /\ Running /\ wpc[w] = "recv" /\ objectCh # <<>>
    /\ objectCh' = Tail(objectCh)
    /\ LET i == Head(objectCh)
           kind == lines[i]
       IN /\ dequeued' = [dequeued EXCEPT ![i] = @ + 1]
          /\ IF SplitPanics(variant, kind)
               THEN \* result[1] of a one-element slice: index out of range
                    /\ halted' = TRUE
                    /\ wtask' = [wtask EXCEPT ![w] = i]
                    /\ UNCHANGED <<wpc, wrun, count, failCnt, issued, invoked>>
             ELSE IF WorkerFilters(variant) /\ ~patternMatch(kind)
               THEN /\ failCnt' = failCnt + 1
                    /\ wpc' = [wpc EXCEPT ![w] = "sendFailed"]
                    /\ wtask' = [wtask EXCEPT ![w] = i]
                    /\ UNCHANGED <<wrun, count, issued, invoked, halted>>
             ELSE \E r \in StrategyCtx(variant, dryRun, kind, cancelled) :
                    /\ invoked' = [invoked EXCEPT ![i] = @ + 1]
                    /\ wtask' = [wtask EXCEPT ![w] =
                                    IF AfterStrategy(variant, r.err) = "recv" THEN 0 ELSE i]
                    /\ wrun' = [wrun EXCEPT ![w] =
                                   IF AfterStrategy(variant, r.err) = "recv" THEN <<>> ELSE r.calls]
                    /\ issued' = issued \cup Range(r.calls)
                    /\ failCnt' = IF r.err THEN failCnt + 1 ELSE failCnt
                    /\ count' = IF ~r.err /\ ~HasSuccessCh(variant) THEN count + 1 ELSE count
                    /\ wpc' = [wpc EXCEPT ![w] = AfterStrategy(variant, r.err)]
                    /\ UNCHANGED halted
    /\ UNCHANGED <<inputs, mainv, objectClosed, failedCh, failedClosed, successCh,
                   successClosed, routerv>>
    /\ UNCHANGED <<storev, routev, listv, cancelled, poolv, encv>>

\* m.failedCh <- obj; continue
WorkerSendFailed(w) ==
    /\ Running /\ wpc[w] = "sendFailed"
    /\ IF failedClosed
         THEN \* send on closed channel
              /\ halted' = TRUE
              /\ UNCHANGED <<failedCh, wpc, wtask, wrun>>
         ELSE /\ Len(failedCh) < concurrent
              /\ failedCh' = Append(failedCh, wtask[w])
              /\ wpc' = [wpc EXCEPT ![w] = "recv"]
              /\ wtask' = [wtask EXCEPT ![w] = 0]
              /\ wrun' = [wrun EXCEPT ![w] = <<>>]
              /\ UNCHANGED halted
    /\ UNCHANGED <<inputs, mainv, objectCh, objectClosed, failedClosed, successCh,
                   successClosed, count, failCnt, issued, invoked, dequeued, routerv>>
    /\ UNCHANGED <<storev, routev, listv, cancelled, poolv, encv>>

\* m.successCh <- obj; m.incCount()
WorkerSendSuccess(w) ==
    /\ Running /\ wpc[w] = "sendSuccess"
    /\ IF successClosed
         THEN /\ halted' = TRUE
              /\ UNCHANGED <<successCh, wpc, wtask, wrun, count>>
         ELSE /\ Len(successCh) < concurrent
              /\ successCh' = Append(successCh, wtask[w])
              /\ count' = count + 1
              /\ wpc' = [wpc EXCEPT ![w] = "recv"]
              /\ wtask' = [wtask EXCEPT ![w] = 0]
              /\ wrun' = [wrun EXCEPT ![w] = <<>>]
              /\ UNCHANGED halted
    /\ UNCHANGED <<inputs, mainv, objectCh, objectClosed, failedCh, failedClosed,
                   successClosed, failCnt, issued, invoked, dequeued, routerv>>
    /\ UNCHANGED <<storev, routev, listv, cancelled, poolv, encv>>

\* ------------------------------------------------------------ the router
\* the goroutine of init(): os.OpenFile of the fail file, then (not copy) of
\* the success file; either failure makes it return
RouterOpen ==
    /\ Running /\ routerpc = "open"
    /\ \E fOk \in BOOLEAN, sOk \in BOOLEAN :
         /\ failFile' = IF fOk THEN "created" ELSE failFile
         /\ successFile' = IF fOk /\ sOk /\ HasSuccessCh(variant)
                             THEN "created" ELSE successFile
         /\ routerpc' = IF fOk /\ (sOk \/ ~HasSuccessCh(variant))
                          THEN "loop" ELSE "returned"
    /\ UNCHANGED <<inputs, mainv, chans, workerv, failLog, successLog>>
    /\ UNCHANGED <<storev, routev, listv, cancelled, poolv, encv>>

\* case obj, ok := <-m.failedCh with ok: f.WriteString(obj + "\n")
RouterFailed ==
    /\ Running /\ routerpc = "loop" /\ failedCh # <<>>
    /\ failedCh' = Tail(failedCh)
    /\ \E written \in BOOLEAN :
         IF written
           THEN failLog' = Append(failLog, Head(failedCh)) /\ UNCHANGED halted
           ELSE halted' = TRUE /\ UNCHANGED failLog      \* os.Exit(1)
    /\ UNCHANGED <<inputs, mainv, objectCh, objectClosed, failedClosed, successCh,
                   successClosed, wpc, wtask, wrun, count, failCnt, issued, invoked, dequeued,
                   routerpc, failFile, successFile, successLog>>
    /\ UNCHANGED <<storev, routev, listv, cancelled, poolv, encv>>

\* case obj, ok := <-m.successCh with ok: s.WriteString(obj + "\n")
RouterSuccess ==
    /\ Running /\ routerpc = "loop" /\ HasSuccessCh(variant) /\ successCh # <<>>
    /\ successCh' = Tail(successCh)
    /\ \E written \in BOOLEAN :
         IF written
           THEN successLog' = Append(successLog, Head(successCh)) /\ UNCHANGED halted
           ELSE halted' = TRUE /\ UNCHANGED successLog   \* os.Exit(1)
    /\ UNCHANGED <<inputs, mainv, objectCh, objectClosed, failedCh, failedClosed,
                   successClosed, wpc, wtask, wrun, count, failCnt, issued, invoked, dequeued,
                   routerpc, failFile, successFile, failLog>>
    /\ UNCHANGED <<storev, routev, listv, cancelled, poolv, encv>>

\* a receive with !ok on either channel: return
RouterReturn ==
    /\ Running /\ routerpc = "loop"
    /\ \/ failedClosed /\ failedCh = <<>>
       \/ HasSuccessCh(variant) /\ successClosed /\ successCh = <<>>
    /\ routerpc' = "returned"
    /\ UNCHANGED <<inputs, mainv, chans, workerv, failFile, successFile, failLog, successLog>>
    /\ UNCHANGED <<storev, routev, listv, cancelled, poolv, encv>>

Next ==
    \/ ActionFlags
    \/ ActionScan
    \/ ActionScanErr
    \/ FinishCloseObjectCh
    \/ FinishWait
    \/ FinishCloseSuccess
    \/ \E w \in Workers : WorkerTask(w)
    \/ \E w \in Workers : WorkerExit(w)
    \/ \E w \in Workers : WorkerSendFailed(w)
    \/ \E w \in Workers : WorkerSendSuccess(w)
    \/ RouterOpen
    \/ RouterFailed
    \/ RouterSuccess
    \/ RouterReturn

Spec == Init /\ [][Next]_vars

\* the Go scheduler lets a goroutine that can take a step take one: the run
\* does not stop while some step is possible
SpecFair == Spec /\ WF_vars(Next)

TypeOK ==
    /\ variant \in Variants /\ fake \in BOOLEAN
    /\ mainpc \in {"flags", "scan", "failed", "wait", "closeSuccess", "done"}
    /\ \A w \in Workers : wpc[w] \in {"recv", "sendFailed", "sendSuccess", "exited"}
    /\ routerpc \in {"open", "loop", "returned"}
    /\ Len(objectCh) <= concurrent /\ Len(failedCh) <= concurrent
    /\ Len(successCh) <= concurrent

\* ============================================================ the bucket
\* Two runs of move, copy or delete, one after the other, over the same
\* listing and against one versioned bucket.  Within a run the tasks of the
\* listing are worked on concurrently; each remote call is a step.
MaxVersions == 2

\* the keys the listing can name, and where a key goes "one level up"
Keys == {"0/x/a", "0/x/b"}
convert(k) == CASE k = "0/x/a" -> "0/a" [] k = "0/x/b" -> "0/b"
AllKeys == Keys \cup {convert(k) : k \in Keys}

VersionIds == 1..MaxVersions
Tasks == [ver : VersionIds, key : Keys]
StoreVariants == {"move", "copy", "delete"}

Version(i, d) == [id |-> i, data |-> d]
HasVersion(s, k, v) == \E n \in 1..Len(s[k]) : s[k][n].id = v
\* version v of key k; v = 0 (no VersionID given) is the latest one
VersionOf(s, k, v) ==
    IF v = 0 THEN s[k][Len(s[k])]
    ELSE s[k][CHOOSE n \in 1..Len(s[k]) : s[k][n].id = v]
Found(s, k, v) == IF v = 0 THEN s[k] # <<>> ELSE HasVersion(s, k, v)

\* a move that copies whatever version is the latest
CopySrcLatest(v, t) == 0

\* the VersionID moveObject / copyObject put in CopySrcOptions
CopySrcVersion(v, t) == IF v = "move" THEN t.ver ELSE 0

\* a copy whose destination is the key itself
CopyDestSame(t) == t.key

\* the Object moveObject / copyObject put in CopyDestOptions
CopyDest(t) == convert(t.key)

\* a deleteObject that removes the version named in the listing
RemoveVersionListed(v, t, stat) == t.ver

\* the VersionID in RemoveObjectOptions: the listing's (move), Stat's (delete)
RemoveVersion(v, t, stat) == IF v = "move" THEN t.ver ELSE stat

\* what the bucket answers to a call of task t, when it can be reached
CallOK(c, t) ==
    CASE c = "Copy" -> Found(store, t.key, CopySrcVersion(variant, t))
      [] c = "Stat" -> store[t.key] # <<>>
      [] c = "Remove" -> TRUE

\* the bucket after a successful call of task t
CallEffect(c, t) ==
    CASE c = "Copy" ->
           [store EXCEPT ![CopyDest(t)] =
              Append(@, Version(nextVer,
                                VersionOf(store, t.key, CopySrcVersion(variant, t)).data))]
      [] c = "Stat" -> store
      [] c = "Remove" ->
           [store EXCEPT ![t.key] =
              SelectSeq(@, LAMBDA x : x.id # RemoveVersion(variant, t, tstat[t]))]

\* the calls a strategy can issue next after the calls p
NextCalls(S, p) ==
    { r.calls[Len(p) + 1] :
        r \in { x \in S : Len(x.calls) > Len(p) /\ SubSeq(x.calls, 1, Len(p)) = p } }

\* the strategy's state after its call sequence q, whose last call answered ok or not
Returned(S, q, ok) ==
    IF ~ok THEN (IF Run(q, TRUE) \in S THEN "fail" ELSE "ok")
    ELSE IF NextCalls(S, q) # {} THEN "run" ELSE "ok"

StartRun == [t \in listing |-> "run"]

InitStore ==
    /\ variant \in StoreVariants
    /\ concurrent = 1 /\ fake = FALSE /\ skipArg = 0 /\ lines = <<>>
    /\ mainpc = "scan" /\ skip = 0 /\ nextLine = 1 /\ dryRun = FALSE
    /\ objectCh = <<>> /\ objectClosed = FALSE
    /\ failedCh = <<>> /\ failedClosed = FALSE
    /\ successCh = <<>> /\ successClosed = FALSE
    /\ wpc = [w \in Workers |-> "recv"]
    /\ wtask = [w \in Workers |-> 0]
    /\ count = 0 /\ failCnt = 0
    /\ routerpc = "loop"
    /\ failFile = "created" /\ successFile = "created"
    /\ failLog = <<>> /\ successLog = <<>>
    /\ wrun = [w \in Workers |-> <<>>]
    /\ issued = {}
    /\ invoked = [i \in LineIds |-> 0]
    /\ dequeued = [i \in LineIds |-> 0]
    /\ enqueued = <<>>
    /\ summary = <<>>
    /\ halted = FALSE
    /\ \E n \in [Keys -> 0..MaxVersions], old \in [Keys -> BOOLEAN] :
         store = [k \in AllKeys |->
                    IF k \in Keys THEN [i \in 1..n[k] |-> Version(i, <<k, i>>)]
                    ELSE IF \E s \in Keys : convert(s) = k /\ old[s]
                           THEN << Version(1, <<k, 0>>) >> ELSE <<>>]
    /\ store0 = store /\ store1 = store
    /\ nextVer = MaxVersions + 1
    /\ listing \in { L \in SUBSET Tasks :
                       /\ Cardinality(L) <= MaxLines
                       /\ variant # "move" => \A t \in L : t.ver = 1 }
    /\ runNo = 1
    /\ tcalls = [t \in listing |-> <<>>]
    /\ tres = StartRun
    /\ tstat = [t \in listing |-> 0]
    /\ res1 = StartRun
    /\ NoRoute /\ NoList /\ NotCancelled /\ NoPool /\ NoEnc

\* a worker's strategy issues its next remote call for task t; the call
\* fails when the bucket cannot be reached or refuses it
StoreCall(t) ==
    /\ runNo \in {1, 2} /\ tres[t] = "run"
    /\ LET S == Strategy(variant, dryRun, "ok")
       IN \E c \in NextCalls(S, tcalls[t]), reached \in BOOLEAN :
            LET ok == reached /\ CallOK(c, t)
                q == Append(tcalls[t], c)
            IN /\ tcalls' = [tcalls EXCEPT ![t] = q]
               /\ tres' = [tres EXCEPT ![t] = Returned(S, q, ok)]
               /\ store' = IF ok THEN CallEffect(c, t) ELSE store
               /\ nextVer' = IF ok /\ c = "Copy" THEN nextVer + 1 ELSE nextVer
               /\ tstat' = IF ok /\ c = "Stat"
                             THEN [tstat EXCEPT ![t] = VersionOf(store, t.key, 0).id]
                             ELSE tstat
    /\ UNCHANGED <<store0, store1, listing, runNo, res1>>
    /\ UNCHANGED <<inputs, mainv, chans, workerv, routerv, routev, listv, cancelled, poolv, encv>>

\* every task of the run has its outcome: the run ends, the next one starts
\* over the same listing
StoreRunDone ==
    /\ runNo \in {1, 2}
    /\ \A t \in listing : tres[t] # "run"
    /\ runNo' = runNo + 1
    /\ IF runNo = 1
         THEN /\ res1' = tres /\ store1' = store
              /\ tres' = StartRun
              /\ tcalls' = [t \in listing |-> <<>>]
              /\ tstat' = [t \in listing |-> 0]
         ELSE UNCHANGED <<res1, store1, tres, tcalls, tstat>>
    /\ UNCHANGED <<store, store0, nextVer, listing>>
    /\ UNCHANGED <<inputs, mainv, chans, workerv, routerv, routev, listv, cancelled, poolv, encv>>

NextStore ==
    \/ \E t \in listing : StoreCall(t)
    \/ StoreRunDone

SpecStore == InitStore /\ [][NextStore]_vars

\* ===================================================== bucket routing
\* One task of the second migrateState with its key spelled out, to follow
\* migrateObject through SplitN, Atoi and the table of destination buckets.
MaxPrefixLen == 4

\* the characters a leading path segment is built from
SegChars == {"0", "1", "2", "4", "5", "6", "7", "9", "-", "+", "x"}

DigitOf(c) ==
    CASE c = "0" -> 0 [] c = "1" -> 1 [] c = "2" -> 2 [] c = "3" -> 3 [] c = "4" -> 4
      [] c = "5" -> 5 [] c = "6" -> 6 [] c = "7" -> 7 [] c = "8" -> 8 [] c = "9" -> 9
      [] OTHER -> -1

IsDigits(q) == q # <<>> /\ \A n \in 1..Len(q) : DigitOf(q[n]) >= 0

RECURSIVE DigitsValue(_)
DigitsValue(q) ==
    IF q = <<>> THEN 0 ELSE 10 * DigitsValue(Front(q)) + DigitOf(q[Len(q)])

\* strconv.Atoi: an optional sign, then decimal digits
Atoi(q) ==
    LET signed == q # <<>> /\ q[1] \in {"+", "-"}
        digits == IF signed THEN Tail(q) ELSE q
    IN IF IsDigits(digits)
         THEN [ok |-> TRUE,
               val |-> IF signed /\ q[1] = "-" THEN 0 - DigitsValue(digits)
                       ELSE DigitsValue(digits)]
         ELSE [ok |-> FALSE, val |-> 0]

\* strings.SplitN(object, "/", 2)
SplitN(obj) ==
    IF \E n \in 1..Len(obj) : obj[n] = "/"
      THEN LET n == CHOOSE m \in 1..Len(obj) :
                      obj[m] = "/" /\ \A j \in 1..(m - 1) : obj[j] # "/"
           IN << SubSeq(obj, 1, n - 1), SubSeq(obj, n + 1, Len(obj)) >>
      ELSE << obj >>

\* a table whose first range starts one too high
BucketOfFromOne(prefix) ==
    IF prefix > 0 /\ prefix < 250 THEN "bucket1"
    ELSE IF prefix > 249 /\ prefix < 500 THEN "bucket2"
    ELSE IF prefix > 499 /\ prefix < 750 THEN "bucket3"
    ELSE IF prefix > 749 /\ prefix < 1000 THEN "bucket4"
    ELSE "none"

\* the if / else-if chain over prefix: minioDstBucket1..4, or the error
BucketOf(prefix) ==
    IF prefix > -1 /\ prefix < 250 THEN "bucket1"
    ELSE IF prefix > 249 /\ prefix < 500 THEN "bucket2"
    ELSE IF prefix > 499 /\ prefix < 750 THEN "bucket3"
    ELSE IF prefix > 749 /\ prefix < 1000 THEN "bucket4"
    ELSE "none"

\* the bucket migrateObject selects for a key ("none": it returns an error)
Route(obj) ==
    LET result == SplitN(obj)
    IN IF Len(result) # 2 THEN "none"
       ELSE LET prefix == Atoi(result[1])
            IN IF ~prefix.ok THEN "none" ELSE BucketOf(prefix.val)

\* the kind of line a key is, given what patternMatch says of it
KindOf(obj, matches) ==
    IF ~matches THEN "nomatch"
    ELSE IF Route(obj) = "none" THEN "noroute" ELSE "ok"

InitRoute ==
    /\ variant = "migrateRoute"
    /\ concurrent = 1 /\ fake \in BOOLEAN /\ skipArg = 0 /\ lines = <<>>
    /\ mainpc = "scan" /\ skip = 0 /\ nextLine = 1 /\ dryRun = fake
    /\ objectCh = <<>> /\ objectClosed = FALSE
    /\ failedCh = <<>> /\ failedClosed = FALSE
    /\ successCh = <<>> /\ successClosed = FALSE
    /\ wpc = [w \in Workers |-> "recv"]
    /\ wtask = [w \in Workers |-> 0]
    /\ count = 0 /\ failCnt = 0
    /\ routerpc = "loop"
    /\ failFile = "created" /\ successFile = "created"
    /\ failLog = <<>> /\ successLog = <<>>
    /\ wrun = [w \in Workers |-> <<>>]
    /\ issued = {}
    /\ invoked = [i \in LineIds |-> 0]
    /\ dequeued = [i \in LineIds |-> 0]
    /\ enqueued = <<>>
    /\ summary = <<>>
    /\ halted = FALSE
    /\ NoStore /\ NoList /\ NotCancelled /\ NoPool /\ NoEnc
    /\ \E n \in 0..MaxPrefixLen : \E seg \in [1..n -> SegChars] :
         \E rest \in {<<>>, <<"/", "x">>} : rkey = seg \o rest
    /\ rcalls = <<>> /\ rbucket = "none" /\ rres = "todo"

\* the worker takes the key and runs migrateObject on it: incFailCount and
\* failedCh on an error, successCh and incCount otherwise
RouteTask ==
    /\ rres = "todo"
    /\ \E matches \in BOOLEAN :
         \E r \in migrateObjectRoute(dryRun, KindOf(rkey, matches)) :
           /\ rcalls' = r.calls
           /\ rbucket' = IF "Put" \in Range(r.calls) THEN Route(rkey) ELSE "none"
           /\ rres' = IF r.err THEN "fail" ELSE "ok"
           /\ failCnt' = IF r.err THEN failCnt + 1 ELSE failCnt
           /\ failedCh' = IF r.err THEN Append(failedCh, rkey) ELSE failedCh
           /\ successCh' = IF r.err THEN successCh ELSE Append(successCh, rkey)
           /\ count' = IF r.err THEN count ELSE count + 1
           /\ issued' = Range(r.calls)
    /\ UNCHANGED <<rkey, inputs, mainv, objectCh, objectClosed, failedClosed, successClosed,
                   wpc, wtask, wrun, invoked, dequeued, halted, routerv, storev, listv, cancelled, poolv, encv>>

NextRoute == RouteTask

SpecRoute == InitRoute /\ [][NextRoute]_vars

\* ================================================= the listing consumers
\* The listing-driven moveAction (one ListObjects per numbered prefix from
\* --start to --end) and listAction (one ListObjects over the bucket).  The
\* entries arrive one by one on the channel ListObjects returns; what the
\* workers do with an enqueued task is in the pipeline specification.
MaxEntries == 2
MaxPrefix == 1

\* an ObjectInfo of the listing: Err set, or IsDeleteMarker / IsLatest and
\* what patternMatch says of its Key
Entries ==
    { e \in [err : BOOLEAN, marker : BOOLEAN, latest : BOOLEAN, match : BOOLEAN] :
        e.err => (~e.marker /\ ~e.latest /\ ~e.match) }

\* a consumer that takes every version of a matching key
AcceptsAnyVersion(e) == ~e.marker /\ e.match

\* !object.IsDeleteMarker && object.IsLatest && patternMatch(object.Key)
Accepts(e) == ~e.marker /\ e.latest /\ e.match

\* a consumer that skips an entry carrying an error
ErrSkipped(e) == FALSE

\* object.Err != nil
ErrIsFatal(e) == e.err

\* object.VersionID + "," + object.Key of the entry at place pos of prefix pre
ListTask(pre, pos, e) == [pre |-> pre, pos |-> pos, entry |-> e]

InitList ==
    /\ variant = "move"
    /\ concurrent = 1 /\ fake \in BOOLEAN /\ skipArg = 0 /\ lines = <<>>
    /\ mainpc = "scan" /\ skip = 0 /\ nextLine = 1 /\ dryRun = fake
    /\ objectCh = <<>> /\ objectClosed = FALSE
    /\ failedCh = <<>> /\ failedClosed = FALSE
    /\ successCh = <<>> /\ successClosed = FALSE
    /\ wpc = [w \in Workers |-> "recv"]
    /\ wtask = [w \in Workers |-> 0]
    /\ count = 0 /\ failCnt = 0
    /\ routerpc = "loop"
    /\ failFile = "created" /\ successFile = "created"
    /\ failLog = <<>> /\ successLog = <<>>
    /\ wrun = [w \in Workers |-> <<>>]
    /\ issued = {}
    /\ invoked = [i \in LineIds |-> 0]
    /\ dequeued = [i \in LineIds |-> 0]
    /\ enqueued = <<>>
    /\ summary = <<>>
    /\ halted = FALSE
    /\ NoStore /\ NoRoute /\ NotCancelled /\ NoPool /\ NoEnc
    /\ lmode \in {"move", "list"}
    /\ lstart \in 0..MaxPrefix
    /\ lend \in 0..MaxPrefix
    /\ lmode = "list" => (lstart = 0 /\ lend = 0)
    /\ lpc = "list" /\ lpre = lstart /\ lpos = 0
    /\ lentry \in {e \in Entries : e.err}
    /\ lout = <<>>

\* for object := range minioClient.ListObjects(...): one entry arrives and
\* the body of the loop runs on it
ListEntry ==
    /\ ~halted /\ lpc = "list" /\ lpre <= lend /\ lpos < MaxEntries
    /\ \E e \in Entries :
         /\ lentry' = e
         /\ lpos' = lpos + 1
         /\ IF ErrIsFatal(e)
              THEN \* return object.Err
                   /\ lpc' = "failed"
                   /\ UNCHANGED <<objectCh, enqueued, lout, halted>>
            ELSE IF Accepts(e)
              THEN /\ UNCHANGED lpc
                   /\ IF lmode = "move"
                        THEN /\ queueUploadTask(ListTask(lpre, lpos + 1, e))
                             /\ UNCHANGED <<lout, halted>>
                        ELSE /\ \E written \in BOOLEAN :
                                  IF written
                                    THEN /\ lout' = Append(lout, ListTask(lpre, lpos + 1, e))
                                         /\ UNCHANGED halted
                                    ELSE halted' = TRUE /\ UNCHANGED lout    \* os.Exit(1)
                             /\ UNCHANGED <<objectCh, enqueued>>
            ELSE UNCHANGED <<lpc, objectCh, enqueued, lout, halted>>
    /\ UNCHANGED <<lmode, lstart, lend, lpre>>
    /\ UNCHANGED <<inputs, mainpc, skip, nextLine, dryRun, summary, objectClosed, failedCh,
                   failedClosed, successCh, successClosed, wpc, wtask, wrun, count, failCnt,
                   issued, invoked, dequeued, routerv, storev, routev, cancelled, poolv, encv>>

\* the channel of ListObjects is closed: the range loop ends, the next
\* prefix (if any) is listed
ListEnd ==
    /\ ~halted /\ lpc = "list" /\ lpre <= lend
    /\ lpre' = lpre + 1
    /\ lpos' = 0
    /\ UNCHANGED <<lmode, lstart, lend, lpc, lentry, lout>>
    /\ UNCHANGED <<inputs, mainv, chans, workerv, routerv, storev, routev, cancelled, poolv, encv>>

\* after the last prefix: mvState.finish() closes objectCh and waits for the
\* workers; listAction just returns
ListFinish ==
    /\ ~halted /\ lpc = "list" /\ lpre > lend
    /\ IF lmode = "move"
         THEN objectClosed' = TRUE /\ lpc' = "wait"
         ELSE UNCHANGED objectClosed /\ lpc' = "done"
    /\ UNCHANGED <<lmode, lstart, lend, lpre, lpos, lentry, lout>>
    /\ UNCHANGED <<inputs, mainv, objectCh, failedCh, failedClosed, successCh, successClosed,
                   workerv, routerv, storev, routev, cancelled, poolv, encv>>

\* the workers have taken every task: finish() goes on and the action returns nil
ListDone ==
    /\ ~halted /\ lpc = "wait" /\ objectCh = <<>>
    /\ lpc' = "done"
    /\ UNCHANGED <<lmode, lstart, lend, lpre, lpos, lentry, lout>>
    /\ UNCHANGED <<inputs, mainv, chans, workerv, routerv, storev, routev, cancelled, poolv, encv>>

\* a worker receives the task at the head of objectCh
ListDequeue ==
    /\ ~halted /\ lpc \in {"list", "wait", "failed"} /\ objectCh # <<>>
    /\ objectCh' = Tail(objectCh)
    /\ UNCHANGED <<inputs, mainv, objectClosed, failedCh, failedClosed, successCh,
                   successClosed, workerv, routerv, storev, routev, listv, cancelled, poolv, encv>>

NextList ==
    \/ ListEntry
    \/ ListEnd
    \/ ListFinish
    \/ ListDone
    \/ ListDequeue

SpecList == InitList /\ [][NextList]_vars

\* ============================================================ cancellation
\* init(ctx) and addWorker(ctx) hand the context to every worker and to the
\* router.  Here the owner of that context cancels it at some moment of the
\* run; the worker pool, the router and the action are the ones above.
CancelVariants == {"delete", "move"}

InitCancel == Init /\ variant \in CancelVariants /\ skipArg = 0

\* the cancel function of the context is called: ctx.Done() is closed
Cancel ==
    /\ Running /\ ~cancelled
    /\ cancelled' = TRUE
    /\ UNCHANGED <<inputs, mainv, chans, workerv, routerv, storev, routev, listv, poolv, encv>>

\* the worker's select takes case <-ctx.Done(): return, wg.Done().  When
\* objectCh is ready as well the select takes either case (WorkerTask,
\* WorkerExit).
WorkerCancelled(w) ==
    /\ Running /\ cancelled /\ wpc[w] = "recv"
    /\ wpc' = [wpc EXCEPT ![w] = "exited"]
    /\ UNCHANGED <<inputs, mainv, chans, wtask, wrun, count, failCnt, issued, invoked,
                   dequeued, halted, routerv>>
    /\ UNCHANGED <<storev, routev, listv, cancelled, poolv, encv>>

\* the router's select takes case <-ctx.Done(): return
RouterCancelled ==
    /\ Running /\ cancelled /\ routerpc = "loop"
    /\ routerpc' = "returned"
    /\ UNCHANGED <<inputs, mainv, chans, workerv, failFile, successFile, failLog, successLog>>
    /\ UNCHANGED <<storev, routev, listv, cancelled, poolv, encv>>

NextCancel ==
    \/ Next
    \/ Cancel
    \/ \E w \in Workers : WorkerCancelled(w)
    \/ RouterCancelled

SpecCancel == InitCancel /\ [][NextCancel]_vars

\* the Go scheduler lets a goroutine that can take a step take one
SpecCancelFair == SpecCancel /\ WF_vars(NextCancel)

\* ================================================================ the pool
\* newDeleteState and init(): the size of the pool and of the channels, with
\* the workers counted instead of told apart.
deleteConcurrent == 100
MaxProcs == 101
MaxTasks == 102

\* a pool of the default size whatever the machine
ConcurrencyDefault(p) == deleteConcurrent

\* if runtime.GOMAXPROCS(0) > deleteConcurrent { deleteConcurrent = runtime.GOMAXPROCS(0) }
Concurrency(p) == IF p > deleteConcurrent THEN p ELSE deleteConcurrent

InitPool ==
    /\ variant = "delete"
    /\ procs \in {1} \cup (deleteConcurrent..MaxProcs)
    /\ concurrent = Concurrency(procs)
    /\ fake = FALSE /\ skipArg = 0 /\ lines = <<>>
    /\ mainpc = "scan" /\ skip = 0 /\ nextLine = 1 /\ dryRun = fake
    /\ objectCh = <<>> /\ objectClosed = FALSE
    /\ failedCh = <<>> /\ failedClosed = FALSE
    /\ successCh = <<>> /\ successClosed = FALSE
    /\ wpc = <<>> /\ wtask = <<>> /\ wrun = <<>>
    /\ count = 0 /\ failCnt = 0
    /\ routerpc = "loop"
    /\ failFile = "created" /\ successFile = "created"
    /\ failLog = <<>> /\ successLog = <<>>
    /\ issued = {}
    /\ invoked = [i \in LineIds |-> 0]
    /\ dequeued = [i \in LineIds |-> 0]
    /\ enqueued = <<>>
    /\ summary = <<>>
    /\ halted = FALSE
    /\ NoStore /\ NoRoute /\ NoList /\ NotCancelled /\ NoEnc
    /\ started = 0 /\ busy = 0

\* for i := 0; i < deleteConcurrent; i++ { m.addWorker(ctx) }
AddWorker ==
    /\ started < concurrent
    /\ started' = started + 1
    /\ UNCHANGED <<procs, busy>>
    /\ UNCHANGED <<inputs, mainv, chans, workerv, routerv, storev, routev, listv, cancelled, encv>>

\* init() has returned; the action enqueues its next task
PoolEnqueue ==
    /\ started = concurrent /\ nextLine <= MaxTasks
    /\ queueUploadTask(nextLine)
    /\ nextLine' = nextLine + 1
    /\ UNCHANGED <<inputs, mainpc, skip, dryRun, summary, objectClosed, failedCh, failedClosed,
                   successCh, successClosed, workerv, routerv, storev, routev, listv,
                   cancelled, poolv, encv>>

\* one of the workers at its receive takes the task at the head of objectCh
PoolTake ==
    /\ busy < started /\ objectCh # <<>>
    /\ objectCh' = Tail(objectCh)
    /\ busy' = busy + 1
    /\ UNCHANGED <<procs, started>>
    /\ UNCHANGED <<inputs, mainv, objectClosed, failedCh, failedClosed, successCh,
                   successClosed, workerv, routerv, storev, routev, listv, cancelled, encv>>

\* a worker that holds a task is through with it and back at its receive
PoolRelease ==
    /\ busy > 0
    /\ busy' = busy - 1
    /\ UNCHANGED <<procs, started>>
    /\ UNCHANGED <<inputs, mainv, chans, workerv, routerv, storev, routev, listv, cancelled, encv>>

NextPool ==
    \/ AddWorker
    \/ PoolEnqueue
    \/ PoolTake
    \/ PoolRelease

SpecPool == InitPool /\ [][NextPool]_vars

\* ======================================================= the move task
\* One entry of a listing made into a move task by the listing-driven
\* moveAction (or written by listAction and read back line by line), with
\* VersionID and Key spelled out, and the move worker taking it apart.
MaxVerLen == 2
MaxKeyLen == 3
VerChars == {"v", "w"}
KeyChars == {"k", ","}

\* a split at the last separator
SplitAtLast(s, sep) ==
    IF \E n \in 1..Len(s) : s[n] = sep
      THEN LET n == CHOOSE m \in 1..Len(s) :
                      s[m] = sep /\ \A j \in (m + 1)..Len(s) : s[j] # sep
           IN << SubSeq(s, 1, n - 1), SubSeq(s, n + 1, Len(s)) >>
      ELSE << s >>

\* strings.SplitN(s, sep, 2): split at the first separator, if there is one
SplitNSep(s, sep) ==
    IF \E n \in 1..Len(s) : s[n] = sep
      THEN LET n == CHOOSE m \in 1..Len(s) :
                      s[m] = sep /\ \A j \in 1..(m - 1) : s[j] # sep
           IN << SubSeq(s, 1, n - 1), SubSeq(s, n + 1, Len(s)) >>
      ELSE << s >>

InitEnc ==
    /\ variant = "move"
    /\ concurrent = 1 /\ fake \in BOOLEAN /\ skipArg = 0 /\ lines = <<>>
    /\ mainpc = "scan" /\ skip = 0 /\ nextLine = 1 /\ dryRun = fake
    /\ objectCh = <<>> /\ objectClosed = FALSE
    /\ failedCh = <<>> /\ failedClosed = FALSE
    /\ successCh = <<>> /\ successClosed = FALSE
    /\ wpc = [w \in Workers |-> "recv"]
    /\ wtask = [w \in Workers |-> 0]
    /\ count = 0 /\ failCnt = 0
    /\ routerpc = "loop"
    /\ failFile = "created" /\ successFile = "created"
    /\ failLog = <<>> /\ successLog = <<>>
    /\ wrun = [w \in Workers |-> <<>>]
    /\ issued = {}
    /\ invoked = [i \in LineIds |-> 0]
    /\ dequeued = [i \in LineIds |-> 0]
    /\ enqueued = <<>>
    /\ summary = <<>>
    /\ halted = FALSE
    /\ NoStore /\ NoRoute /\ NoList /\ NotCancelled /\ NoPool
    /\ \E n \in 0..MaxVerLen : tversion \in [1..n -> VerChars]
    /\ \E n \in 0..MaxKeyLen : tkey \in [1..n -> KeyChars]
    /\ tpc = "listed"
    /\ tversionID = <<>> /\ tobj = <<>>

\* mvState.queueUploadTask(object.VersionID + "," + object.Key)
EncEnqueue ==
    /\ tpc = "listed"
    /\ queueUploadTask(tversion \o <<",">> \o tkey)
    /\ tpc' = "queued"
    /\ UNCHANGED <<tversion, tkey, tversionID, tobj>>
    /\ UNCHANGED <<inputs, mainpc, skip, nextLine, dryRun, summary, objectClosed, failedCh,
                   failedClosed, successCh, successClosed, workerv, routerv, storev, routev,
                   listv, cancelled, poolv>>

\* the move worker: result := strings.SplitN(object, ",", 2), obj and
\* versionID from it, then patternMatch and moveObject, whose result is the
\* environment's; obj goes to failedCh or to successCh
EncWorker ==
    /\ tpc = "queued" /\ objectCh # <<>>
    /\ objectCh' = Tail(objectCh)
    /\ LET result == SplitNSep(Head(objectCh), ",")
       IN IF Len(result) < 2
            THEN \* result[1]: index out of range
                 /\ tpc' = "panic" /\ halted' = TRUE
                 /\ UNCHANGED <<tversionID, tobj, failedCh, successCh, count, failCnt>>
            ELSE /\ tobj' = result[2]
                 /\ tversionID' = result[1]
                 /\ tpc' = "sent"
                 /\ UNCHANGED halted
                 /\ \E err \in BOOLEAN :
                      IF err
                        THEN /\ failCnt' = failCnt + 1
                             /\ failedCh' = Append(failedCh, result[2])
                             /\ UNCHANGED <<successCh, count>>
                        ELSE /\ successCh' = Append(successCh, result[2])
                             /\ count' = count + 1
                             /\ UNCHANGED <<failedCh, failCnt>>
    /\ UNCHANGED <<tversion, tkey>>
    /\ UNCHANGED <<inputs, mainv, objectClosed, failedClosed, successClosed, wpc, wtask, wrun,
                   issued, invoked, dequeued, routerv, storev, routev, listv, cancelled, poolv>>

NextEnc ==
    \/ EncEnqueue
    \/ EncWorker

SpecEnc == InitEnc /\ [][NextEnc]_vars

\* ================================================================ claims
\* the remote calls that change the object store
Mutating == {"Put", "Copy", "Remove"}

\* the router opened every log file of the variant
LogsOpened == failFile = "created" /\ (HasSuccessCh(variant) => successFile = "created")

\* the action returned nil: finish() has returned
Completed == mainpc = "done"

\* C1: in migrate, move and delete, with skip = 0 and the log files opened,
\* when the run reports completion the success log and the failure log
\* together hold one line per input line.
C1_AllOutcomesLogged ==
    (/\ Completed
     /\ variant \in {"migrate", "migrateRoute", "move", "delete"}
     /\ skipArg = 0
     /\ LogsOpened)
    => Len(successLog) + Len(failLog) = K

\* C2: the router (having opened its files) never returns while a key is
\* still buffered in the failure channel or in the success channel.
C2_RouterDrainsBoth ==
    (routerpc = "returned" /\ HasSuccessCh(variant) /\ LogsOpened)
    => (failedCh = <<>> /\ successCh = <<>>)

\* C3: an outcome channel is closed only after the task queue was closed and
\* every worker has exited, and once finish() has returned every outcome
\* channel of the variant is closed.
C3_FinishOrder ==
    /\ (failedClosed \/ successClosed) => (objectClosed /\ WorkersDone)
    /\ Completed => (failedClosed /\ (HasSuccessCh(variant) => successClosed))

RECURSIVE SumOver(_, _)
SumOver(f, S) ==
    IF S = {} THEN 0
    ELSE LET x == CHOOSE y \in S : TRUE IN f[x] + SumOver(f, S \ {x})

\* the worker's loop rejects the key of line i before calling the strategy
FilteredByWorker(i) == variant \in {"move", "copy", "delete"} /\ lines[i] = "nomatch"

\* C4: once finish() has returned, every enqueued task was
\* dequeued once and the strategy was invoked for it exactly once.
C4_StrategyOnceEach ==
    Completed => \A i \in Range(enqueued) : dequeued[i] = 1 /\ invoked[i] = 1

\* C4, with the worker's filter taken into account: every enqueued task is dequeued by at most one worker, at
\* most once, and never held by two workers; the strategy runs at most once
\* per dequeue; when finish() has returned every enqueued task was dequeued
\* exactly once and its strategy ran exactly once, except that it did not run
\* at all for a key the worker's own pattern filter rejected.
C4_ExactlyOnce ==
    /\ \A i \in LineIds :
         /\ dequeued[i] <= 1
         /\ invoked[i] <= dequeued[i]
         /\ dequeued[i] = 1 => i \in Range(enqueued)
    /\ \A m, n \in 1..Len(enqueued) : enqueued[m] = enqueued[n] => m = n
    /\ \A w1, w2 \in Workers : (wtask[w1] # 0 /\ wtask[w1] = wtask[w2]) => w1 = w2
    /\ Completed => \A i \in Range(enqueued) :
                      /\ dequeued[i] = 1
                      /\ invoked[i] = IF FilteredByWorker(i) THEN 0 ELSE 1

\* two workers shared a two-line input, one key filtered, one run by the strategy
C4_Witness ==
    /\ Completed /\ concurrent = 2 /\ Len(enqueued) = 2
    /\ \E i, j \in Range(enqueued) :
         dequeued[i] = 1 /\ invoked[i] = 0 /\ dequeued[j] = 1 /\ invoked[j] = 1

\* tasks a worker has received whose success is not yet counted (the worker
\* sends on successCh before incCount)
PendingSuccess == Cardinality({w \in Workers : wpc[w] = "sendSuccess"})

\* C5: the two counters never decrease and no step adds more than one to
\* their sum; every dequeued task is counted in exactly one of them once its
\* outcome is sent; nothing is added after finish() read them; and when
\* finish() has returned processed + failed = number of tasks enqueued, which
\* is what the summary shows.
C5_Counters ==
    /\ [][/\ count' >= count /\ failCnt' >= failCnt
          /\ count' + failCnt' <= count + failCnt + 1
          /\ Completed => (count' = count /\ failCnt' = failCnt)]_vars
    /\ [](~halted => count + failCnt + PendingSuccess = SumOver(dequeued, LineIds))
    /\ [](Completed => /\ count + failCnt = Len(enqueued)
                       /\ ~dryRun => summary = <<count, failCnt>>)

\* a summary was printed for a run with a success and a failure
C5_Witness ==
    Completed /\ ~dryRun /\ count = 1 /\ failCnt = 1 /\ summary = <<1, 1>>

\* the steps of a run whose input is read without error
NextNoScanErr ==
    \/ ActionFlags
    \/ ActionScan
    \/ FinishCloseObjectCh
    \/ FinishWait
    \/ FinishCloseSuccess
    \/ \E w \in Workers : WorkerTask(w) \/ WorkerExit(w)
    \/ \E w \in Workers : WorkerSendFailed(w) \/ WorkerSendSuccess(w)
    \/ RouterOpen \/ RouterFailed \/ RouterSuccess \/ RouterReturn

\* C6: a worker that fails a task (strategy error or pattern mismatch) goes
\* on to record it and returns to the top of its loop; a worker leaves the
\* loop only when the task queue is closed and empty; the failing step does
\* not move the action, close a channel or end the process; when finish() has
\* returned every enqueued task was attempted; and after a failure the run
\* is never stuck (its logs opened, input readable): some step stays possible
\* until the action returns.
C6_FailureKeepsRunning ==
    /\ [][/\ \A w \in Workers :
               /\ (failCnt' > failCnt /\ wpc'[w] # wpc[w]) => wpc'[w] = "sendFailed"
               /\ (wpc[w] = "sendFailed" /\ wpc'[w] # "sendFailed") => wpc'[w] = "recv"
               /\ (wpc[w] # "exited" /\ wpc'[w] = "exited")
                    => (objectClosed /\ objectCh = <<>>)
          /\ failCnt' > failCnt
               => /\ mainpc' = mainpc /\ ~halted'
                  /\ UNCHANGED <<objectClosed, failedClosed, successClosed>>]_vars
    /\ [](Completed => \A i \in Range(enqueued) : dequeued[i] = 1)
    /\ []((failCnt > 0 /\ LogsOpened /\ Running) => ENABLED NextNoScanErr)

\* the only worker failed the first line, then handled the second
C6_Witness ==
    /\ Completed /\ concurrent = 1 /\ K = 2
    /\ failCnt = 1 /\ count = 1 /\ failLog = <<1>> /\ dequeued[2] = 1

\* C7: with --fake no PutObject, CopyObject or RemoveObject is issued by any
\* strategy in any variant, and every strategy invocation runs with dryRun
\* equal to the flag.
C7_DryRunNoMutation ==
    /\ fake => /\ issued \cap Mutating = {}
               /\ \A w \in Workers : Range(wrun[w]) \cap Mutating = {}
    /\ (\E i \in LineIds : invoked[i] > 0) => dryRun = fake

\* a dry run of delete ran the strategy (its Stat) for both lines and completed
C7_Witness ==
    /\ fake /\ Completed /\ variant = "delete" /\ K = 2
    /\ invoked[1] = 1 /\ invoked[2] = 1 /\ issued = {"Stat"} /\ count = 2

\* C8: with --fake the migrate variants write no line to the success log or
\* to the failure log.
C8_DryRunLogsUntouched ==
    (fake /\ variant \in {"migrate", "migrateRoute"})
    => (failLog = <<>> /\ successLog = <<>>)

\* C9: with --fake the migrate strategy issues neither GetObject nor Stat on
\* the source.
C9_DryRunBeforeGet ==
    (fake /\ variant \in {"migrate", "migrateRoute"})
    => ("Get" \notin issued /\ "Stat" \notin issued)

\* the number of lines --skip discards: a value <= 0 skips nothing
Skipped == Max(skipArg, 0)

\* C10: the tasks enqueued are, in file order, the lines after the first S;
\* once the whole file is read there are exactly max(K - S, 0) of them; none
\* of the first S lines is ever in a channel, held by a worker or written to
\* a log.
C10_Skip ==
    /\ Len(enqueued) <= Max(K - Skipped, 0)
    /\ \A n \in 1..Len(enqueued) : enqueued[n] = Skipped + n
    /\ mainpc \in {"wait", "closeSuccess", "done"} => Len(enqueued) = Max(K - Skipped, 0)
    /\ \A i \in 1..Min(Skipped, K) :
         /\ dequeued[i] = 0
         /\ i \notin Range(objectCh) \cup Range(failedCh) \cup Range(successCh)
         /\ i \notin Range(failLog) \cup Range(successLog)
         /\ \A w \in Workers : wtask[w] # i

\* skip = 1 on two lines: only line 2 was enqueued and logged
C10_Witness ==
    /\ skipArg = 1 /\ K = 2 /\ Completed /\ enqueued = <<2>>
    /\ Range(failLog) \cup Range(successLog) = {2}

\* C11: a Copy run over K lines whose copies all succeed (nothing skipped,
\* fail file opened) ends with processed = K, no failure-log line and K
\* success-log lines.
C11_CopySuccessLogged ==
    (variant = "copy" /\ Completed /\ skipArg <= 0 /\ failCnt = 0 /\ failFile = "created")
    => (count = K /\ failLog = <<>> /\ Len(successLog) = K)

\* failures recorded by the counter whose key has not reached the log yet
FailuresInFlight ==
    Cardinality({w \in Workers : wpc[w] = "sendFailed"}) + Len(failedCh)

\* C12: in delete (not a dry run), the step in which StatObject fails for a
\* task issues no RemoveObject, adds one to the failed counter, leaves the
\* processed counter alone and takes the worker to the send of that key on
\* failedCh; that send puts exactly this key on failedCh and nothing on
\* successCh; a delete task is on its way to the success channel only after
\* its RemoveObject; and every counted failure is exactly one key on its way
\* to, or one line in, the failure log.
C12_DeleteStatFailure ==
    /\ [][\A w \in Workers :
            /\ (variant = "delete" /\ ~dryRun /\ wpc[w] = "recv" /\ wrun'[w] = <<"Stat">>)
                 => /\ failCnt' = failCnt + 1 /\ count' = count
                    /\ wpc'[w] = "sendFailed" /\ wtask'[w] = Head(objectCh)
                    /\ "Remove" \notin issued' \ issued
            /\ (variant = "delete" /\ wpc[w] = "sendFailed" /\ wpc'[w] # "sendFailed")
                 => /\ failedCh' = Append(failedCh, wtask[w])
                    /\ UNCHANGED <<successCh, count, failCnt, issued>>]_vars
    /\ []((variant = "delete" /\ ~halted)
            => /\ failCnt = FailuresInFlight + Len(failLog)
               /\ \A w \in Workers :
                    (wpc[w] = "sendSuccess" /\ ~dryRun) => wrun[w] = <<"Stat", "Remove">>)

\* StatObject failed for the only line of a delete run and its key is the
\* one line of the failure log
C12_Witness ==
    /\ variant = "delete" /\ ~dryRun /\ Completed /\ K = 1
    /\ issued = {"Stat"} /\ failCnt = 1 /\ count = 0 /\ failLog = <<1>> /\ successLog = <<>>

\* both runs over the listing are done
BothRunsDone == runNo = 3

\* C13: an object the first Move run moved successfully has lost the listed
\* version, so in the second run over the same listing its task never
\* succeeds: its CopyObject fails, no RemoveObject follows, and the task ends
\* as a failure.
C13_SecondMoveFails ==
    (variant = "move" /\ runNo >= 2)
    => \A t \in listing :
         res1[t] = "ok"
         => /\ ~HasVersion(store, t.key, t.ver)
            /\ tres[t] # "ok"
            /\ "Remove" \notin Range(tcalls[t])
            /\ BothRunsDone => tres[t] = "fail"

\* both objects of a listing were moved by the first run and failed in the second
C13_Witness ==
    /\ variant = "move" /\ BothRunsDone /\ Cardinality(listing) = 2
    /\ \A t \in listing : res1[t] = "ok" /\ tres[t] = "fail" /\ tcalls[t] = <<"Copy">>

\* what a reader of the bucket sees: the content of the latest version of each key
View(s) == [k \in AllKeys |-> IF s[k] = <<>> THEN <<>> ELSE s[k][Len(s[k])].data]

C15_DeleteIdempotent ==
    (variant = "delete" /\ BothRunsDone)
    => \A t \in listing : store1[t.key] # <<>> => store[t.key] = store1[t.key]

\* C15, as the code deletes: each Delete run removes from a listed key
\* exactly its latest version when the task succeeds and nothing when it
\* fails; a task on a key with no version left fails; so a key with more
\* than one version loses one more version in the second run, and only a key
\* with no version left is unchanged by it.  Keys not listed are untouched.
C15_DeleteLatestEachRun ==
    variant = "delete"
    => /\ \A k \in AllKeys \ {t.key : t \in listing} : store[k] = store0[k]
       /\ runNo >= 2
            => \A t \in listing :
                 /\ store1[t.key] = IF res1[t] = "ok" THEN Front(store0[t.key]) ELSE store0[t.key]
                 /\ store0[t.key] = <<>> => res1[t] = "fail"
       /\ BothRunsDone
            => \A t \in listing :
                 /\ store[t.key] = IF tres[t] = "ok" THEN Front(store1[t.key]) ELSE store1[t.key]
                 /\ store1[t.key] = <<>> => tres[t] = "fail"

\* a key with two versions lost one in each run
C15_Witness ==
    /\ variant = "delete" /\ BothRunsDone
    /\ \E t \in listing :
         /\ Len(store0[t.key]) = 2 /\ res1[t] = "ok" /\ tres[t] = "ok"
         /\ Len(store1[t.key]) = 1 /\ store[t.key] = <<>>

\* the routing table as the claim gives it
BucketTable(p) ==
    CASE p \in 0..249 -> "bucket1"
      [] p \in 250..499 -> "bucket2"
      [] p \in 500..749 -> "bucket3"
      [] p \in 750..999 -> "bucket4"
      [] OTHER -> "none"

\* the key has a '/' and its leading segment is an integer
HasLeadingInt(obj) == Len(SplitN(obj)) = 2 /\ Atoi(SplitN(obj)[1]).ok
LeadingInt(obj) == Atoi(SplitN(obj)[1]).val

\* C16: every prefix from -1 to 1000 selects the bucket of the table (one
\* bucket for each of 0..999, none outside); in a run that is not a dry run a
\* PutObject goes to the bucket the table gives for the key's leading
\* integer, which is in 0..999; and a key with a leading integer outside
\* 0..999, a non-numeric segment or no '/' gets no PutObject and is counted
\* and sent as a failure.
C16_BucketRouting ==
    /\ rkey = <<>> => \A p \in -1..1000 : BucketOf(p) = BucketTable(p)
    /\ (rres \in {"ok", "fail"} /\ ~dryRun)
         => /\ "Put" \in Range(rcalls)
                 => /\ HasLeadingInt(rkey) /\ LeadingInt(rkey) \in 0..999
                    /\ rbucket = BucketTable(LeadingInt(rkey))
            /\ rres = "ok" => "Put" \in Range(rcalls)
            /\ ~(HasLeadingInt(rkey) /\ LeadingInt(rkey) \in 0..999)
                 => /\ "Put" \notin Range(rcalls) /\ rbucket = "none"
                    /\ rres = "fail" /\ failCnt = 1 /\ count = 0
                    /\ failedCh = <<rkey>> /\ successCh = <<>>
            /\ rkey = <<"2", "6", "0", "/", "x">> => rbucket \in {"bucket2", "none"}
            /\ rkey \in { <<"1", "0", "0", "0", "/", "x">>, <<"-", "1", "/", "x">>,
                          <<"x", "/", "x">>, <<"2", "6", "0">> } => rres = "fail"

\* 260/x was put into bucket2
C16_Witness ==
    /\ rkey = <<"2", "6", "0", "/", "x">> /\ rres = "ok" /\ rbucket = "bucket2"
    /\ rcalls = <<"Get", "Stat", "Put">> /\ count = 1 /\ successCh = <<rkey>>

\* 1000/x was put nowhere and recorded as a failure
C16_WitnessOutside ==
    /\ rkey = <<"1", "0", "0", "0", "/", "x">> /\ ~dryRun /\ rres = "fail"
    /\ rcalls = <<"Get", "Stat">> /\ failedCh = <<rkey>>

\* C17: nothing is printed as a summary before finish() returns; the summary
\* is written in one step, once, when every worker has exited; a run that
\* completed in dry-run has no summary; a run that completed otherwise has
\* the summary with the two counters as they are for good, which account for
\* every enqueued task.
C17_Summary ==
    /\ [][/\ summary' # summary
               => (summary = <<>> /\ WorkersDone /\ ~Completed /\ Completed')
          /\ Completed => UNCHANGED <<summary, count, failCnt>>]_vars
    /\ [](~Completed => summary = <<>>)
    /\ []((Completed /\ dryRun) => summary = <<>>)
    /\ []((Completed /\ ~dryRun)
            => /\ summary = <<count, failCnt>>
               /\ WorkersDone
               /\ count + failCnt = Len(enqueued))

\* a dry run over two lines completed without a summary
C17_Witness ==
    Completed /\ dryRun /\ fake /\ count + failCnt = 2 /\ summary = <<>>

\* the router returned because a log file could not be created
LogOpenFailed == routerpc = "returned" /\ ~LogsOpened

\* C18: once the router has failed to create the failure or the success
\* file, no worker dequeues a task and no remote call is issued.
C18_AbortOnLogFailure ==
    [][LogOpenFailed => (dequeued' = dequeued /\ issued' = issued)]_vars

\* C19: the run comes to its end: finish() returns (or the action returns
\* the input error, or the process exits); no worker is left blocked in a
\* send for ever.
C19_FinishReturns == <>(~Running)

\* C20: in every variant a worker holding a key that fails the pattern
\* filter is on its way to send it on failedCh and no remote call was issued
\* for it; a listing of such keys only causes no remote call and no success.
C20_PatternMismatchFails ==
    /\ \A w \in Workers :
         (wtask[w] # 0 /\ lines[wtask[w]] = "nomatch")
         => (wpc[w] = "sendFailed" /\ wrun[w] = <<>>)
    /\ (\A i \in 1..K : lines[i] = "nomatch")
         => (issued = {} /\ count = 0 /\ successCh = <<>>)

\* worker w runs the strategy in this step and it returns an error
StrategyFails(w) ==
    /\ wpc[w] = "recv" /\ wpc'[w] # "recv" /\ objectCh # <<>>
    /\ invoked'[Head(objectCh)] = invoked[Head(objectCh)] + 1
    /\ failCnt' # failCnt

\* C21: the step in which the strategy returns an error adds exactly one to
\* the failed counter, leaves the processed counter and both outcome
\* channels alone and leaves the worker about to send the task's key on
\* failedCh; the worker leaves that point only by the send, which appends
\* exactly that key to failedCh, changes no counter and puts nothing on
\* successCh; a key held for failedCh is in neither channel yet.
C21_ErrorIsOneFailure ==
    /\ [][\A w \in Workers :
            /\ StrategyFails(w)
                 => /\ failCnt' = failCnt + 1 /\ count' = count
                    /\ wpc'[w] = "sendFailed" /\ wtask'[w] = Head(objectCh)
                    /\ UNCHANGED <<failedCh, successCh>>
            /\ (wpc[w] = "sendFailed" /\ wpc'[w] # "sendFailed")
                 => /\ wpc'[w] = "recv"
                    /\ failedCh' = Append(failedCh, wtask[w])
                    /\ UNCHANGED <<successCh, count, failCnt>>]_vars
    /\ [](\A w \in Workers :
            wpc[w] = "sendFailed"
            => wtask[w] \notin Range(failedCh) \cup Range(successCh)
                               \cup Range(failLog) \cup Range(successLog))
    /\ [](~halted => failCnt = FailuresInFlight + Len(failLog))

\* CopyObject failed for the only line of a move: one failure, its key on failedCh
C21_Witness ==
    /\ variant = "move" /\ ~dryRun /\ K = 1 /\ lines[1] = "ok" /\ issued = {"Copy"}
    /\ failCnt = 1 /\ count = 0 /\ failedCh = <<1>> /\ successCh = <<>>
    /\ wpc[1] = "recv"

\* C22: in delete no key is ever in the success channel or in the success log.
C22_DeleteNoSuccessOutcome ==
    variant = "delete" => (successCh = <<>> /\ successLog = <<>>)

\* C22, as the code does it: the delete worker sends the key of every
\* successful task on successCh and then counts it, and the router writes it
\* to the delete success log: every counted success is one key in successCh
\* or one line of that log.
C22_DeleteEmitsSuccess ==
    /\ [][\A w \in Workers :
            (variant = "delete" /\ count' # count)
            => (count' = count + 1
                /\ (wpc[w] # wpc'[w] => (wpc[w] = "sendSuccess" /\ wpc'[w] = "recv"
                                         /\ successCh' = Append(successCh, wtask[w]))))]_vars
    /\ []((variant = "delete" /\ ~halted) => count = Len(successCh) + Len(successLog))

\* a delete run completed with its one key in the success log
C22_Witness ==
    /\ variant = "delete" /\ ~dryRun /\ Completed /\ K = 1
    /\ issued = {"Stat", "Remove"} /\ count = 1 /\ successLog = <<1>> /\ failLog = <<>>

\* C25: in migrate (not a dry run), a worker whose strategy stopped after the
\* failed Stat of a fetched, routable object issued no Put and is about to
\* send the key on successCh.
C25_StatFailureIsSuccess ==
    \A w \in Workers :
      (/\ variant \in {"migrate", "migrateRoute"} /\ ~dryRun
       /\ wtask[w] # 0 /\ lines[wtask[w]] = "ok"
       /\ wrun[w] = <<"Get", "Stat">>)
      => wpc[w] = "sendSuccess"

\* the bucket as it was when the run in progress (or the last one) started
RunStart == IF runNo = 1 THEN store0 ELSE store1

\* key k without its version v
Without(s, k, v) == SelectSeq(s[k], LAMBDA x : x.id # v)

\* C23: a delete task calls StatObject first and RemoveObject only after it
\* succeeded; the version Stat returned is the latest version the key had,
\* and a successful task has removed exactly that version and no other,
\* whatever version the listing may name.
C23_DeleteUsesStatVersion ==
    variant = "delete"
    => \A t \in listing :
         /\ tcalls[t] \in {<<>>, <<"Stat">>, <<"Stat", "Remove">>}
         /\ "Remove" \in Range(tcalls[t]) => tstat[t] # 0
         /\ tstat[t] # 0
              => /\ RunStart[t.key] # <<>>
                 /\ tstat[t] = RunStart[t.key][Len(RunStart[t.key])].id
         /\ tres[t] = "ok"
              => /\ tcalls[t] = <<"Stat", "Remove">>
                 /\ store[t.key] = Without(RunStart, t.key, tstat[t])
                 /\ ~HasVersion(store, t.key, tstat[t])
                 /\ \A v \in VersionIds :
                      (v # tstat[t] /\ HasVersion(RunStart, t.key, v)) => HasVersion(store, t.key, v)

\* a key with versions 1 and 2: Stat returned 2 and the delete removed it,
\* leaving version 1
C23_Witness ==
    /\ variant = "delete" /\ runNo = 1
    /\ \E t \in listing :
         /\ Len(store0[t.key]) = 2 /\ tres[t] = "ok" /\ tstat[t] = 2
         /\ HasVersion(store, t.key, 1) /\ ~HasVersion(store, t.key, 2)

\* the destination of task t holds a copy of the version the task names
CopyExists(t) ==
    \E n \in 1..Len(store[convert(t.key)]) :
      store[convert(t.key)][n].data = <<t.key, t.ver>>

\* C24: a move task issues CopyObject, then RemoveObject only if the copy
\* succeeded; the copy is of the version the task names and it is that
\* version the Remove takes away; the task succeeds only with the copy made
\* and the version removed; a failed copy is followed by no Remove and
\* leaves the version where it was; a failed Remove after the copy leaves
\* the task a failure with both the original version and the copy present.
C24_MoveCopyThenRemove ==
    variant = "move"
    => \A t \in listing :
         /\ tcalls[t] \in {<<>>, <<"Copy">>, <<"Copy", "Remove">>}
         /\ "Remove" \in Range(tcalls[t]) => CopyExists(t)
         /\ tres[t] = "ok"
              => /\ tcalls[t] = <<"Copy", "Remove">>
                 /\ CopyExists(t)
                 /\ ~HasVersion(store, t.key, t.ver)
                 /\ \A v \in VersionIds :
                      (HasVersion(RunStart, t.key, v) /\ [ver |-> v, key |-> t.key] \notin listing)
                      => HasVersion(store, t.key, v)
         /\ (tres[t] = "fail" /\ tcalls[t] = <<"Copy">>)
              => (HasVersion(RunStart, t.key, t.ver) => HasVersion(store, t.key, t.ver))
         /\ (tres[t] = "fail" /\ tcalls[t] = <<"Copy", "Remove">>)
              => (HasVersion(store, t.key, t.ver) /\ CopyExists(t))

\* RemoveObject failed after the copy of version 1 of a key with two
\* versions: the task failed, the original and the copy are both there
C24_Witness ==
    /\ variant = "move" /\ runNo = 1
    /\ \E t \in listing :
         /\ t.ver = 1 /\ Len(store0[t.key]) = 2
         /\ tres[t] = "fail" /\ tcalls[t] = <<"Copy", "Remove">>
         /\ HasVersion(store, t.key, 1) /\ CopyExists(t)

\* what a listing consumer has produced: tasks enqueued, lines written
Emitted == IF lmode = "move" THEN enqueued ELSE lout

\* C26: an entry received from the listing becomes a task (move) or a line
\* (list) exactly when it is the latest version, no delete marker and its
\* key matches: then exactly that entry is appended, once; no other step
\* produces a task or a line, and no step of a consumer records an outcome.
C26_ListingFilter ==
    /\ [][/\ lpos' = lpos + 1
               => /\ (enqueued' # enqueued \/ lout' # lout)
                       => (~lentry'.err /\ ~lentry'.marker /\ lentry'.latest /\ lentry'.match)
                  /\ (~lentry'.err /\ ~lentry'.marker /\ lentry'.latest /\ lentry'.match
                      /\ ~halted')
                       => /\ lmode = "move"
                               => /\ enqueued' = Append(enqueued, ListTask(lpre, lpos', lentry'))
                                  /\ objectCh' = Append(objectCh, ListTask(lpre, lpos', lentry'))
                                  /\ lout' = lout
                          /\ lmode = "list"
                               => /\ lout' = Append(lout, ListTask(lpre, lpos', lentry'))
                                  /\ enqueued' = enqueued
          /\ lpos' # lpos + 1 => UNCHANGED <<enqueued, lout>>
          /\ UNCHANGED <<count, failCnt, failedCh, successCh>>]_vars
    /\ [](\A n \in 1..Len(Emitted) :
            /\ ~Emitted[n].entry.marker /\ Emitted[n].entry.latest /\ Emitted[n].entry.match
            /\ \A m \in 1..Len(Emitted) :
                 (Emitted[m].pre = Emitted[n].pre /\ Emitted[m].pos = Emitted[n].pos) => m = n)

\* a listing of one prefix gave an older version, then the latest version of
\* a matching key: only the second became a task
C26_Witness ==
    /\ lmode = "move" /\ lpc = "done" /\ lstart = lend
    /\ Len(enqueued) = 1 /\ enqueued[1].pos = 2 /\ lpos = 0

\* C27: in listing-driven move the entry that carries an error makes the
\* action return the error in that step, with nothing enqueued for it; once
\* it has returned nothing more is enqueued or listed; every task enqueued
\* comes before the failing entry; and no failure is counted or sent for it.
C27_ListingErrorFatal ==
    /\ [][/\ (lmode = "move" /\ lpos' = lpos + 1 /\ lentry'.err)
               => (lpc' = "failed" /\ UNCHANGED <<enqueued, objectCh, failCnt, failedCh>>)
          /\ (lmode = "move" /\ lpc = "failed")
               => UNCHANGED <<enqueued, lpre, lpos, lpc, failCnt, failedCh>>]_vars
    /\ []((lmode = "move" /\ lpc = "failed")
            => /\ lentry.err
               /\ failCnt = 0 /\ failedCh = <<>> /\ failLog = <<>>
               /\ \A n \in 1..Len(enqueued) :
                    \/ enqueued[n].pre < lpre
                    \/ (enqueued[n].pre = lpre /\ enqueued[n].pos < lpos))
    /\ []((lmode = "move" /\ lpc \in {"wait", "done"}) => ~lentry.err \/ lpos = 0)

\* the second entry of the first of two prefixes carried an error, after
\* one task was enqueued: the action returned it, the second prefix unlisted
C27_Witness ==
    /\ lmode = "move" /\ lpc = "failed" /\ lstart = 0 /\ lend = 1
    /\ lpre = 0 /\ lpos = 2 /\ lentry.err /\ Len(enqueued) = 1

\* C28: once the context is cancelled no worker dequeues a task, and no
\* worker sends an outcome or changes a counter (a worker that held a task
\* when the signal came returns without recording it).
C28_CancelStopsWorkers ==
    [][cancelled => /\ dequeued' = dequeued
                    /\ Len(failedCh') <= Len(failedCh)
                    /\ Len(successCh') <= Len(successCh)
                    /\ count' = count /\ failCnt' = failCnt]_vars

\* C29: after the context is cancelled, with the log files open and the
\* router in its loop, every worker and the router terminate and finish()
\* returns (or the process has ended before).
C29_CancelTerminates ==
    (cancelled /\ routerpc = "loop")
        ~> (~Running \/ (WorkersDone /\ routerpc = "returned" /\ mainpc = "done"))

\* the lines of a move listing that have no ','
NoComma == { i \in 1..K : variant = "move" /\ lines[i] = "nocomma" }

WorkerStep == dequeued' # dequeued \/ wpc' # wpc

\* C31: no step of a worker ends the process: a worker that takes a task
\* goes on to record a success or a failure for it, or is back at its
\* receive.
C31_WorkerNeverAborts ==
    [][WorkerStep => /\ ~halted'
                     /\ \A w \in Workers :
                          wpc'[w] \in {"recv", "sendFailed", "sendSuccess", "exited"}]_vars

\* max(100, GOMAXPROCS)
PoolSize == IF procs > 100 THEN procs ELSE 100

\* C32: the channels hold max(100, GOMAXPROCS) tasks; init() starts workers
\* up to that number and has started exactly that many when the first task
\* is enqueued; never more than that many workers hold a task, never more
\* than that many tasks are buffered, and the producer cannot enqueue while
\* the task channel is full.
C32_PoolBounds ==
    /\ concurrent = PoolSize
    /\ started <= PoolSize
    /\ nextLine > 1 => started = PoolSize
    /\ busy <= PoolSize
    /\ Len(objectCh) <= PoolSize
    /\ Len(objectCh) = PoolSize => ~ENABLED PoolEnqueue

\* on a machine with more than 100 processors the task channel is full,
\* every worker is at its receive and the producer has a task left
C32_Witness ==
    /\ procs > 100 /\ started = procs
    /\ Len(objectCh) = procs /\ busy = 0 /\ nextLine <= MaxTasks

\* a step of the action (producer and finish) / of the router goroutine
ProducerStep == mainv' # mainv
RouterStep == routerv' # routerv

\* C33: dryRun is written only by the action, with the workers started and
\* nothing enqueued yet, and holds the --fake value from then on, so every
\* strategy runs with it (a dry run issues no call that changes a bucket);
\* beyond that a worker step changes only channels, counters and the
\* worker's own position, a router step only the outcome channels and its
\* files, a step of the action only the channels and its own variables.
C33_SharedState ==
    /\ [][/\ dryRun' # dryRun
               => /\ mainpc = "flags" /\ enqueued = <<>> /\ objectCh = <<>>
                  /\ \A w \in Workers : wpc[w] = "recv"
          /\ invoked' # invoked => (dryRun = fake /\ dryRun' = fake)
          /\ WorkerStep
               => UNCHANGED <<mainv, routerv, inputs, objectClosed, failedClosed, successClosed>>
          /\ RouterStep
               => UNCHANGED <<mainv, inputs, objectCh, objectClosed, failedClosed, successClosed,
                              wpc, wtask, wrun, count, failCnt, issued, invoked, dequeued>>
          /\ ProducerStep
               => UNCHANGED <<inputs, failedCh, successCh, wpc, wtask, wrun, count, failCnt,
                              issued, invoked, dequeued, routerv>>]_vars
    /\ [](mainpc # "flags" => dryRun = fake)
    /\ [](fake => issued \subseteq {"Get", "Stat"})

\* a dry run in which a worker has run the strategy on an enqueued line
C33_Witness ==
    /\ fake /\ dryRun /\ enqueued # <<>>
    /\ \E i \in 1..K : invoked[i] = 1
    /\ \E w \in Workers : wpc[w] = "sendSuccess"

\* C34: nothing is sent on a closed channel: while the action can still
\* enqueue, objectCh is open; a worker that is about to send, or can still
\* take a task and send for it, finds its outcome channel open; and no
\* channel grows once it is closed.
C34_NoSendOnClosed ==
    /\ [](mainpc \in {"flags", "scan"} => ~objectClosed)
    /\ [](\A w \in Workers :
            /\ wpc[w] = "sendFailed" => ~failedClosed
            /\ wpc[w] = "sendSuccess" => ~successClosed
            /\ wpc[w] # "exited" => (~failedClosed /\ ~successClosed))
    /\ [][/\ objectClosed => Len(objectCh') <= Len(objectCh)
          /\ failedClosed => Len(failedCh') <= Len(failedCh)
          /\ successClosed => Len(successCh') <= Len(successCh)]_vars

\* finish() has closed the three channels after two lines went through the
\* pool, one to each outcome channel
C34_Witness ==
    /\ objectClosed /\ failedClosed /\ successClosed
    /\ Len(enqueued) = 2 /\ count = 1 /\ failCnt = 1
    /\ Len(failLog) + Len(failedCh) = 1 /\ Len(successLog) + Len(successCh) = 1

\* the lines the scanner loop has dropped for --skip so far
SkippedSoFar == Min(Skipped, nextLine - 1)

\* C35: the step in which the action returns the scanner error changes no
\* channel, no worker and no summary; after it (as after a failed open of
\* the input file) no channel is closed, no worker has returned, no summary
\* is printed, and every line read and not skipped had been enqueued.
C35_ScanErrorSkipsFinish ==
    /\ [][(mainpc = "scan" /\ mainpc' = "failed")
            => UNCHANGED <<chans, workerv, routerv, summary, enqueued, nextLine>>]_vars
    /\ [](mainpc = "failed"
            => /\ ~objectClosed /\ ~failedClosed /\ ~successClosed
               /\ summary = <<>>
               /\ \A w \in Workers : wpc[w] # "exited"
               /\ enqueued = [n \in 1..(nextLine - 1 - SkippedSoFar) |-> n + SkippedSoFar])

\* the scanner failed after the first of two lines: that line is still in
\* objectCh or with a worker when the action returns
C35_Witness ==
    /\ mainpc = "failed" /\ K = 2 /\ nextLine = 2 /\ enqueued = <<1>>
    /\ \/ objectCh = <<1>>
       \/ \E w \in Workers : wtask[w] = 1 /\ wpc[w] \in {"sendFailed", "sendSuccess"}

\* C36: the task made of a VersionID without comma and a Key is taken
\* apart by the worker into that VersionID and that Key, whatever commas
\* the Key holds, without a panic, and the Key alone is what it sends on
\* failedCh or on successCh.
C36_TaskRoundTrip ==
    /\ tpc # "panic"
    /\ tpc = "queued" => objectCh = << tversion \o <<",">> \o tkey >>
    /\ tpc = "sent"
         => /\ tversionID = tversion
            /\ tobj = tkey
            /\ failedCh \o successCh = << tkey >>
            /\ count + failCnt = 1

\* a key with two commas and an empty version id went through the worker
C36_Witness ==
    /\ tpc = "sent" /\ tversion = <<>> /\ tkey = <<",", "k", ",">>
    /\ successCh = << tkey >>

====
